---- MODULE Spec2Model ----
(***************************************************************************)
(* Model of src/pathway_script.py: MockPathwayConnector, a generator of    *)
(* synthetic feed records and the loop that merges each record into the    *)
(* capped JSON buffer file pathway_data.json.                              *)
(*                                                                         *)
(* A Python str is a sequence of text fragments (concatenation is \o), a   *)
(* Python dict with string keys is a TLA+ record, a Python list is a       *)
(* sequence.  The file is a sequence of JSON tokens, so that json.dump     *)
(* and json.load are conversions between two different representations.   *)
(***************************************************************************)
EXTENDS Integers, Sequences, FiniteSets, TLC

\* ---------------------------------------------------------------- bounds
\* Records generated in one run (caps self.counter in the guards).
MaxCounter == 3
\* Failures injected by the environment in one run (I/O errors and the like).
MaxFaults == 1

\* ------------------------------------------------------ program constants
\* "Keep only last 100 items"
BufferCap == 100
\* time.sleep(random.randint(30, 60))
SleepMin == 30
SleepMax == 60
\* time.sleep(5) in the handler
BackoffSeconds == 5

\* ------------------------------------------------------------ text helpers
Str(s) == <<s>>

DigitChars == <<"0", "1", "2", "3", "4", "5", "6", "7", "8", "9">>

\* str(n) for a non-negative int, as the f-string renders it.
RECURSIVE Digits(_)
Digits(n) ==
    IF n < 10 THEN <<DigitChars[n + 1]>>
    ELSE Digits(n \div 10) \o <<DigitChars[(n % 10) + 1]>>

StartsWith(s, p) == Len(s) >= Len(p) /\ SubSeq(s, 1, Len(p)) = p

Min(a, b) == IF a < b THEN a ELSE b

\* ---------------------------------------------------------------- catalog
sources ==
    << [name |-> Str("Tech News"), type |-> "news",
        base_urls |-> <<Str("https://techcrunch.com"), Str("https://arstechnica.com")>>],
       [name |-> Str("Market Data"), type |-> "market",
        base_urls |-> <<Str("https://marketwatch.com"), Str("https://bloomberg.com")>>] >>

news_titles ==
    << Str("AI Productivity Tools See 340% Growth in Enterprise Adoption"),
       Str("OpenAI Releases New GPT-5 Model with Enhanced Reasoning"),
       Str("Startup Funding Reaches Record Highs in Q1 2024"),
       Str("Microsoft Integrates AI Assistants Across Office Suite"),
       Str("Google's Gemini Model Shows Breakthrough in Code Generation") >>

market_titles ==
    << Str("Tech Stocks Rally on AI Investment News"),
       Str("Venture Capital Focuses on AI Infrastructure"),
       Str("SaaS Companies Report Strong Q1 Earnings"),
       Str("Cloud Computing Revenue Exceeds Projections"),
       Str("Cybersecurity Spending Increases 45% Year-over-Year") >>

content_snippets ==
    << Str("Recent market analysis shows unprecedented growth in AI-powered tools, with enterprise adoption increasing by 340% year-over-year. Companies are investing heavily in automation and productivity enhancement solutions."),
       Str("The latest developments in artificial intelligence are transforming how businesses operate, with new models offering enhanced capabilities for content generation, data analysis, and process automation."),
       Str("Investment patterns indicate a strong preference for AI and automation technologies, with funding rounds averaging 60% higher than previous quarters for companies in this sector."),
       Str("Integration of AI assistants into existing software ecosystems is accelerating, providing users with intelligent automation capabilities across multiple platforms and workflows."),
       Str("Market research indicates that companies implementing AI productivity tools are seeing average efficiency gains of 25-40% across various operational metrics.") >>

\* ------------------------------------------------------ environment inputs
\* Clock readings of the current run (seconds), and one of an earlier run.
Times == {1700000000, 1700000001}
OldTime == 1600000000

\* One draw is what the random module and the clock hand to one call of
\* generate_mock_data: the index of each random.choice, the reading of
\* time.time() and the reading of datetime.now().
AllDraws ==
    { [s |-> s, t |-> t, c |-> c, u |-> u, now |-> n, stamp |-> m] :
        s \in 1..Len(sources), t \in 1..Len(news_titles),
        c \in 1..Len(content_snippets), u \in 1..2, n \in Times, m \in Times }

\* The draws explored inside the loop: both sources and two clock readings (a
\* draw may repeat, so two cycles may read the same second).
LoopDraws ==
    { [s |-> 1, t |-> 1, c |-> 1, u |-> 1, now |-> 1700000000, stamp |-> 1700000000],
      [s |-> 2, t |-> 5, c |-> 3, u |-> 2, now |-> 1700000001, stamp |-> 1700000001] }

\* datetime.now().isoformat(): a text that determines the reading.
isoformat(t) == Str("datetime:") \o Digits(t)

\* The title list random.choice is given for a source.
TitlesFor_Crossed(source) == IF source.type = "market" THEN news_titles ELSE market_titles
TitlesFor(source) == IF source.type = "news" THEN news_titles ELSE market_titles

\* The id of a record.
RecordId_TimeOnly(c, now) == Str("pathway_") \o Digits(now)
RecordId(c, now) == Str("pathway_") \o Digits(c) \o Str("_") \o Digits(now)

generate_mock_data(c, d) ==
    LET source == sources[d.s]
        title == TitlesFor(source)[d.t]
        content == content_snippets[d.c]
    IN  [ id |-> RecordId(c, d.now),
          title |-> title,
          content |-> content,
          url |-> source.base_urls[d.u] \o Str("/article/") \o Digits(c),
          timestamp |-> isoformat(d.stamp),
          source |-> source.name ]

\* ------------------------------------------------------------------- JSON
\* The tokens of the file's text.  "garbage" is text json cannot parse,
\* "badbyte" a byte sequence that is not UTF-8.
LB == [tok |-> "[", pairs |-> <<>>]
RB == [tok |-> "]", pairs |-> <<>>]
Garbage == [tok |-> "garbage", pairs |-> <<>>]
BadByte == [tok |-> "badbyte", pairs |-> <<>>]
EmptyObject == [tok |-> "object", pairs |-> <<>>]

\* Insertion order of the keys of a record dict (the dict literal's order).
FieldOrder == <<"id", "title", "content", "url", "timestamp", "source">>

\* A dict as a JSON object: its key/value pairs in insertion order.
DumpDict_NoTimestamp(d) ==
    LET keys == SelectSeq(FieldOrder, LAMBDA k : k \in DOMAIN d /\ k # "timestamp")
    IN  [tok |-> "object", pairs |-> [i \in 1..Len(keys) |-> [k |-> keys[i], v |-> d[keys[i]]]]]
DumpDict(d) ==
    LET keys == SelectSeq(FieldOrder, LAMBDA k : k \in DOMAIN d)
    IN  [tok |-> "object", pairs |-> [i \in 1..Len(keys) |-> [k |-> keys[i], v |-> d[keys[i]]]]]

\* A JSON object as a dict: the last pair of a key wins.
LoadObject(o) ==
    LET n == Len(o.pairs)
        Last(k) == CHOOSE i \in 1..n :
                      /\ o.pairs[i].k = k
                      /\ \A j \in (i + 1)..n : o.pairs[j].k # k
    IN  [k \in {o.pairs[i].k : i \in 1..n} |-> o.pairs[Last(k)].v]

\* json.dump(list, f, indent=2): the complete text of a list of dicts.
json_dump(items) == <<LB>> \o [i \in 1..Len(items) |-> DumpDict(items[i])] \o <<RB>>

IsArrayText(text) ==
    /\ Len(text) >= 2
    /\ text[1] = LB
    /\ text[Len(text)] = RB
    /\ \A i \in 2..(Len(text) - 1) : text[i].tok = "object"

\* Python values bound to existing_data.
PyList(items) == [ty |-> "list", items |-> items]
PyDict == [ty |-> "dict", items |-> <<>>]
NoData == [ty |-> "unbound", items |-> <<>>]

\* The file: missing, or existing with a text.
Missing == [exists |-> FALSE, text |-> <<>>]
FileOf(text) == [exists |-> TRUE, text |-> text]

\* open(..., "r") followed by json.load(f): the exception raised, or the value.
json_load(f) ==
    IF ~f.exists THEN [exc |-> "FileNotFoundError", value |-> NoData]
    ELSE IF \E i \in 1..Len(f.text) : f.text[i] = BadByte
        THEN [exc |-> "UnicodeDecodeError", value |-> NoData]
    ELSE IF IsArrayText(f.text)
        THEN [exc |-> "none",
              value |-> PyList([i \in 1..(Len(f.text) - 2) |-> LoadObject(f.text[i + 1])])]
    ELSE IF Len(f.text) = 1 /\ f.text[1].tok = "object"
        THEN [exc |-> "none", value |-> PyDict]
    ELSE [exc |-> "JSONDecodeError", value |-> NoData]

\* except (FileNotFoundError, json.JSONDecodeError)
InnerCatches(e) == e \in {"FileNotFoundError", "JSONDecodeError"}

\* except Exception: every exception class of the model derives from Exception
\* (KeyboardInterrupt and SystemExit, the external kill, are no per-cycle errors).
ExceptionClasses ==
    {"FileNotFoundError", "JSONDecodeError", "UnicodeDecodeError", "AttributeError", "OSError"}
OuterCatches_OnlyIO(e) == e \in {"OSError", "FileNotFoundError"}
OuterCatches(e) == e \in ExceptionClasses

\* existing_data[-100:] when len(existing_data) > 100
KeepLast_OffByOne(items) ==
    IF Len(items) > BufferCap
        THEN SubSeq(items, Len(items) - BufferCap, Len(items))
        ELSE items
KeepLast_First(items) ==
    IF Len(items) > BufferCap THEN SubSeq(items, 1, BufferCap) ELSE items
KeepLast(items) ==
    IF Len(items) > BufferCap
        THEN SubSeq(items, Len(items) - BufferCap + 1, Len(items))
        ELSE items

\* existing_data.append(new_item)
ListAppend_Front(items, x) == <<x>> \o items
ListAppend(items, x) == Append(items, x)

\* --------------------------------------------------- what the run may find
\* Record i of an earlier run of the same program.
OldRecord(i) ==
    generate_mock_data(i - 1,
        [s |-> 1 + (i % 2), t |-> 1 + (i % 5), c |-> 1 + (i % 5), u |-> 1 + (i % 2),
         now |-> OldTime, stamp |-> OldTime])

OldBuffer(n) == [i \in 1..n |-> OldRecord(i)]

\* Lengths of the buffer found on disk: empty, short, one below the cap, at the
\* cap, and already beyond it.
InitLens == {0, 1, BufferCap - 1, BufferCap, BufferCap + 2}

InitFiles ==
    {Missing, FileOf(<<>>), FileOf(<<Garbage>>), FileOf(<<BadByte>>),
     FileOf(<<EmptyObject>>), FileOf(<<LB, DumpDict(OldRecord(1))>>)}
    \cup {FileOf(json_dump(OldBuffer(n))) : n \in InitLens}

\* ------------------------------------------------------------------ state
VARIABLES
    pc,             \* the statement run_continuous executes next
    counter,        \* self.counter
    new_item,       \* the local new_item
    existing_data,  \* the local existing_data
    file,           \* pathway_data.json
    exc,            \* the exception being handled ("none" when there is none)
    stderr,         \* the lines printed to sys.stderr
    sleeping,       \* the argument of the time.sleep in progress (0 when none is)
    faults,         \* failures injected so far
    cycle_file,     \* history: the file as the load of the current cycle saw it
    last_written,   \* history: the list given to the last json.dump that completed
    generated_ids,  \* history: the ids of the records generated in this run, in order
    committed_ids,  \* history: the ids of the records whose cycle completed its write
    intact,         \* history: no open(..., "w") has truncated the file since the last
                    \* completed json.dump (TRUE before the first write)
    reader_view,    \* what the external reader got from its last read of the file
    reader_at       \* the writer's pc at that read

vars == <<pc, counter, new_item, existing_data, file, exc, stderr, sleeping, faults,
          cycle_file, last_written, generated_ids, committed_ids, intact, reader_view, reader_at>>

NoItem ==
    [id |-> <<>>, title |-> <<>>, content |-> <<>>, url |-> <<>>, timestamp |-> <<>>,
     source |-> <<>>]
NotLoaded == [exists |-> FALSE, text |-> <<Garbage>>]
NothingWritten == [ty |-> "unbound", items |-> <<>>]
NoView == [exists |-> FALSE, text |-> <<Garbage, Garbage>>]

StartLine == Str("Starting Pathway mock integration...")
GeneratedLine(item) == Str("Generated new data item: ") \o item.title
ErrorLine(e) == Str("Error in Pathway integration: ") \o Str(e)

\* MockPathwayConnector() has been constructed; run_continuous is about to start.
Init ==
    /\ pc = "start"
    /\ counter = 0
    /\ new_item = NoItem
    /\ existing_data = NoData
    /\ file \in InitFiles
    /\ exc = "none"
    /\ stderr = <<>>
    /\ sleeping = 0
    /\ faults = 0
    /\ cycle_file = NotLoaded
    /\ last_written = NothingWritten
    /\ generated_ids = <<>>
    /\ committed_ids = {}
    /\ intact = TRUE
    /\ reader_view = NoView
    /\ reader_at = "none"

\* ---------------------------------------------------------------- actions
\* The draws of random.randint(30, 60) that are explored.
SleepDraws == {SleepMin, SleepMax}

\* Prefix lengths of the text that the buffered file object may have handed to
\* the operating system before the with-block closes the file: the opening
\* bracket alone, and everything but the closing bracket.
FlushPoints(text) == {1, Len(text) - 1}

\* Statements of the try body at which the environment may raise.
FallibleSteps == {"sleep", "generate", "load", "append", "truncate", "open_w", "dump", "report"}
InjectedErrors == {"OSError"}

\* print("Starting Pathway mock integration...", file=sys.stderr)
Start ==
    /\ pc = "start"
    /\ stderr' = Append(stderr, StartLine)
    /\ pc' = "sleep"
    /\ UNCHANGED <<counter, new_item, existing_data, file, exc, sleeping, faults, cycle_file,
                   last_written, generated_ids, committed_ids, intact, reader_view, reader_at>>

\* time.sleep(random.randint(30, 60))
Sleep ==
    /\ pc = "sleep"
    /\ \E d \in SleepDraws : sleeping' = d
    /\ pc' = "sleeping"
    /\ UNCHANGED <<counter, new_item, existing_data, file, exc, stderr, faults, cycle_file,
                   last_written, generated_ids, committed_ids, intact, reader_view, reader_at>>

\* time.sleep returns.
Wake ==
    /\ pc = "sleeping"
    /\ sleeping' = 0
    /\ pc' = "generate"
    /\ UNCHANGED <<counter, new_item, existing_data, file, exc, stderr, faults, cycle_file,
                   last_written, generated_ids, committed_ids, intact, reader_view, reader_at>>

\* new_item = self.generate_mock_data()
Generate(draws) ==
    /\ pc = "generate"
    /\ counter < MaxCounter
    /\ \E d \in draws : new_item' = generate_mock_data(counter, d)
    /\ generated_ids' = Append(generated_ids, new_item'.id)
    /\ pc' = "increment"
    /\ UNCHANGED <<counter, existing_data, file, exc, stderr, sleeping, faults, cycle_file,
                   last_written, committed_ids, intact, reader_view, reader_at>>

GenerateInLoop == Generate(LoopDraws)

\* self.counter += 1
Increment_Twice ==
    /\ pc = "increment"
    /\ counter' = counter + 2
    /\ pc' = "load"
    /\ UNCHANGED <<new_item, existing_data, file, exc, stderr, sleeping, faults, cycle_file,
                   last_written, generated_ids, committed_ids, intact, reader_view, reader_at>>
Increment ==
    /\ pc = "increment"
    /\ counter' = counter + 1
    /\ pc' = "load"
    /\ UNCHANGED <<new_item, existing_data, file, exc, stderr, sleeping, faults, cycle_file,
                   last_written, generated_ids, committed_ids, intact, reader_view, reader_at>>

\* The inner try: open for reading, json.load, and its except clause.
Load ==
    /\ pc = "load"
    /\ cycle_file' = file
    /\ LET r == json_load(file)
       IN  IF r.exc = "none"
               THEN existing_data' = r.value /\ pc' = "append" /\ exc' = exc
           ELSE IF InnerCatches(r.exc)
               THEN existing_data' = PyList(<<>>) /\ pc' = "append" /\ exc' = exc
           ELSE existing_data' = existing_data /\ pc' = "except" /\ exc' = r.exc
    /\ UNCHANGED <<counter, new_item, file, stderr, sleeping, faults, last_written,
                   generated_ids, committed_ids, intact, reader_view, reader_at>>

\* existing_data.append(new_item): only a list has append.
AppendItem ==
    /\ pc = "append"
    /\ IF existing_data.ty = "list"
           THEN /\ existing_data' = PyList(ListAppend(existing_data.items, new_item))
                /\ pc' = "truncate"
                /\ exc' = exc
           ELSE /\ existing_data' = existing_data
                /\ pc' = "except"
                /\ exc' = "AttributeError"
    /\ UNCHANGED <<counter, new_item, file, stderr, sleeping, faults, cycle_file, last_written,
                   generated_ids, committed_ids, intact, reader_view, reader_at>>

\* if len(existing_data) > 100: existing_data = existing_data[-100:]
Truncate ==
    /\ pc = "truncate"
    /\ existing_data' = PyList(KeepLast(existing_data.items))
    /\ pc' = "open_w"
    /\ UNCHANGED <<counter, new_item, file, exc, stderr, sleeping, faults, cycle_file,
                   last_written, generated_ids, committed_ids, intact, reader_view, reader_at>>

\* What open(..., "w") leaves in the file before anything is written.
OpenedForWrite_Keep(f) == f
OpenedForWrite(f) == FileOf(<<>>)

\* with open("pathway_data.json", "w") as f:
OpenWrite ==
    /\ pc = "open_w"
    /\ file' = OpenedForWrite(file)
    /\ pc' = "dump"
    /\ intact' = FALSE
    /\ UNCHANGED <<counter, new_item, existing_data, exc, stderr, sleeping, faults, cycle_file,
                   last_written, generated_ids, committed_ids, reader_view, reader_at>>

\* json.dump in progress: part of the text reaches the file.
Flush ==
    /\ pc = "dump"
    /\ LET text == json_dump(existing_data.items)
       IN  \E k \in FlushPoints(text) :
              /\ file.exists
              /\ k > Len(file.text)
              /\ file' = FileOf(SubSeq(text, 1, k))
    /\ UNCHANGED <<pc, counter, new_item, existing_data, exc, stderr, sleeping, faults,
                   cycle_file, last_written, generated_ids, committed_ids, intact, reader_view,
                   reader_at>>

\* json.dump returns and the with-block closes the file: the whole text is there.
Close ==
    /\ pc = "dump"
    /\ file' = FileOf(json_dump(existing_data.items))
    /\ last_written' = existing_data
    /\ committed_ids' = committed_ids \cup {new_item.id}
    /\ pc' = "report"
    /\ intact' = TRUE
    /\ UNCHANGED <<counter, new_item, existing_data, exc, stderr, sleeping, faults, cycle_file,
                   generated_ids, reader_view, reader_at>>

\* print(f"Generated new data item: {new_item['title']}", file=sys.stderr)
Report ==
    /\ pc = "report"
    /\ stderr' = Append(stderr, GeneratedLine(new_item))
    /\ cycle_file' = NotLoaded
    /\ pc' = "sleep"
    /\ UNCHANGED <<counter, new_item, existing_data, file, exc, sleeping, faults, last_written,
                   generated_ids, committed_ids, intact, reader_view, reader_at>>

\* The environment makes the statement about to run raise.  A failure while the
\* file is open for writing leaves in it what had been flushed.
InjectFault ==
    /\ pc \in FallibleSteps
    /\ faults < MaxFaults
    /\ faults' = faults + 1
    /\ \E e \in InjectedErrors :
          IF pc = "load" /\ InnerCatches(e)
              THEN existing_data' = PyList(<<>>) /\ pc' = "append" /\ exc' = exc
              ELSE existing_data' = existing_data /\ pc' = "except" /\ exc' = e
    /\ UNCHANGED <<counter, new_item, file, stderr, sleeping, cycle_file, last_written,
                   generated_ids, committed_ids, intact, reader_view, reader_at>>

\* except Exception as e: print(f"Error in Pathway integration: {e}", ...)
\* An exception the clause does not match leaves run_continuous.
Except ==
    /\ pc = "except"
    /\ IF OuterCatches(exc)
           THEN stderr' = Append(stderr, ErrorLine(exc)) /\ pc' = "backoff"
           ELSE stderr' = stderr /\ pc' = "exited"
    /\ UNCHANGED <<counter, new_item, existing_data, file, exc, sleeping, faults, cycle_file,
                   last_written, generated_ids, committed_ids, intact, reader_view, reader_at>>

\* time.sleep(5)
Backoff ==
    /\ pc = "backoff"
    /\ sleeping' = BackoffSeconds
    /\ pc' = "backing_off"
    /\ UNCHANGED <<counter, new_item, existing_data, file, exc, stderr, faults, cycle_file,
                   last_written, generated_ids, committed_ids, intact, reader_view, reader_at>>

\* time.sleep(5) returns: the handler ends, back to the top of the while loop.
Retry ==
    /\ pc = "backing_off"
    /\ sleeping' = 0
    /\ exc' = "none"
    /\ cycle_file' = NotLoaded
    /\ pc' = "sleep"
    /\ UNCHANGED <<counter, new_item, existing_data, file, stderr, faults, last_written,
                   generated_ids, committed_ids, intact, reader_view, reader_at>>

\* The external reader (the Node.js side) reads the whole file.
ReaderRead ==
    /\ reader_view' = file
    /\ reader_at' = pc
    /\ UNCHANGED <<pc, counter, new_item, existing_data, file, exc, stderr, sleeping, faults,
                   cycle_file, last_written, generated_ids, committed_ids, intact>>

\* --------------------------------------------------------- specifications
Next ==
    \/ Start
    \/ Sleep
    \/ Wake
    \/ GenerateInLoop
    \/ Increment
    \/ Load
    \/ AppendItem
    \/ Truncate
    \/ OpenWrite
    \/ Flush
    \/ Close
    \/ Report
    \/ InjectFault
    \/ Except
    \/ Backoff
    \/ Retry

\* run_continuous alone.
Spec == Init /\ [][Next]_vars

\* The single thread keeps running: a sleep returns, a statement completes.
\* Error handling does not depend on the size of the buffer: the run starts
\* from the files that are missing, unreadable, not an array, or short.
FairFiles ==
    {Missing, FileOf(<<BadByte>>), FileOf(<<EmptyObject>>), FileOf(json_dump(OldBuffer(1)))}

FairInit ==
    /\ Init
    /\ file \in FairFiles

FairSpec == FairInit /\ [][Next]_vars /\ WF_vars(Next)

\* generate_mock_data alone, over every draw of the random module and the clock.
GenerateAny == Generate(AllDraws)

GenInit ==
    /\ pc = "generate"
    /\ counter \in 0..(MaxCounter - 1)
    /\ new_item = NoItem
    /\ existing_data = NoData
    /\ file = Missing
    /\ exc = "none"
    /\ stderr = <<StartLine>>
    /\ sleeping = 0
    /\ faults = 0
    /\ cycle_file = NotLoaded
    /\ last_written = NothingWritten
    /\ generated_ids = <<>>
    /\ committed_ids = {}
    /\ intact = TRUE
    /\ reader_view = NoView
    /\ reader_at = "none"

GenNext ==
    \/ GenerateAny
    \/ Increment

GenSpec == GenInit /\ [][GenNext]_vars

\* run_continuous with the external reader reading at any moment (the reader
\* keeps its last read; no failure is injected).
RaceFiles == {Missing, FileOf(<<EmptyObject>>), FileOf(json_dump(OldBuffer(1)))}

RaceInit ==
    /\ Init
    /\ file \in RaceFiles

RaceNext ==
    \/ Start
    \/ Sleep
    \/ Wake
    \/ GenerateInLoop
    \/ Increment
    \/ Load
    \/ AppendItem
    \/ Truncate
    \/ OpenWrite
    \/ Flush
    \/ Close
    \/ Report
    \/ Except
    \/ Backoff
    \/ Retry
    \/ ReaderRead

RaceSpec == RaceInit /\ [][RaceNext]_vars

\* ------------------------------------------------------------- properties
\* The persisted buffer: what a reader that parses the file gets.
IsBuffer(f) == LET r == json_load(f) IN r.exc = "none" /\ r.value.ty = "list"
BufferOf(f) == LET r == json_load(f) IN IF r.exc = "none" /\ r.value.ty = "list" THEN r.value.items ELSE <<>>

\* A record generated by this run, and its place in the order of generation.
IsRun(r) == \E k \in 1..Len(generated_ids) : generated_ids[k] = r.id
GenerationIndex(r) == CHOOSE k \in 1..Len(generated_ids) : generated_ids[k] = r.id

Range(seq) == {seq[i] : i \in 1..Len(seq)}

\* C1: when a write of run_continuous has completed, the persisted buffer
\* holds at most 100 records, whatever the file held before the cycle and
\* after any number of cycles.
C1_BufferAtMostCap ==
    pc = "report" => (IsBuffer(file) /\ Len(BufferOf(file)) <= BufferCap)

\* A write has completed in a cycle that found more than 100 records on disk.
C1_Witness ==
    /\ pc = "report"
    /\ IsArrayText(cycle_file.text)
    /\ Len(cycle_file.text) - 2 > BufferCap
    /\ Len(BufferOf(file)) = BufferCap

\* C2: when a cycle has completed its write, with P the list loaded from the
\* file and r the new record, the written buffer is the last min(len(P)+1, 100)
\* elements of P followed by r, in order, and r is its last element.
C2_WrittenIsSuffix ==
    pc = "report" =>
        LET P == BufferOf(cycle_file)
            all == P \o <<new_item>>
            n == Min(Len(P) + 1, BufferCap)
        IN  /\ IsBuffer(file)
            /\ BufferOf(file) = SubSeq(all, Len(all) - n + 1, Len(all))
            /\ BufferOf(file)[n] = new_item

\* The scenario of the spec: a cycle from a buffer of exactly 100 records.
C2_Witness ==
    /\ pc = "report"
    /\ Len(BufferOf(cycle_file)) = BufferCap
    /\ Len(BufferOf(file)) = BufferCap
    /\ BufferOf(file)[1] = BufferOf(cycle_file)[2]

\* C3: a cycle that finds the file missing or holding anything but a readable
\* JSON array of records, and in which no failure is injected, treats the
\* content as an empty buffer, never as an error, and ends with the file
\* holding exactly the new record.
C3_MalformedStartsFromEmpty ==
    ( /\ cycle_file # NotLoaded
      /\ ~IsBuffer(cycle_file)
      /\ pc \in {"except", "report"}
      /\ exc \notin InjectedErrors )
    => (pc = "report" /\ BufferOf(file) = <<new_item>>)

C5_IdsUnique ==
    /\ \A i, j \in 1..Len(generated_ids) : i # j => generated_ids[i] # generated_ids[j]
    /\ \A i \in 1..Len(generated_ids) :
          \E t \in Times :
             generated_ids[i] = Str("pathway_") \o Digits(i - 1) \o Str("_") \o Digits(t)

\* Three records, two of them generated in the same second, one cycle failed.
C5_Witness ==
    /\ Len(generated_ids) = 3
    /\ Cardinality(committed_ids) = 2
    /\ faults = 1
    /\ Tail(Tail(generated_ids[1])) = Tail(Tail(generated_ids[2]))

\* C6: a record returned by generate_mock_data names one of the two catalog
\* sources, its title is in the title list of that source's category (news
\* titles for the news source, market titles for the market source), and its
\* url starts with one of the base_urls of that same source.
C6_RecordMatchesCatalog ==
    new_item # NoItem =>
        \E i \in 1..Len(sources) :
           /\ new_item.source = sources[i].name
           /\ \/ sources[i].type = "news" /\ new_item.title \in Range(news_titles)
              \/ sources[i].type = "market" /\ new_item.title \in Range(market_titles)
           /\ \E b \in 1..Len(sources[i].base_urls) :
                 StartsWith(new_item.url, sources[i].base_urls[b] \o Str("/article/"))

\* A record of the market source has been returned.
C6_Witness ==
    /\ pc = "increment"
    /\ new_item.source = Str("Market Data")
    /\ new_item.title = market_titles[5]

C8_ReadDuringWriteIsTorn ==
    [][ (pc = "dump" /\ <<reader_view, reader_at>>' # <<reader_view, reader_at>>)
        => /\ reader_view'.exists
           /\ ~IsArrayText(reader_view'.text)
           /\ reader_view'.text # json_dump(existing_data.items)
           /\ StartsWith(json_dump(existing_data.items), reader_view'.text)
           /\ (IsArrayText(cycle_file.text) => reader_view' # cycle_file) ]_vars

\* The reader holds a partial prefix read mid-write, the file having held a
\* complete buffer before the open.
C8_Witness ==
    /\ pc = "dump"
    /\ reader_at = "dump"
    /\ reader_view = file
    /\ Len(reader_view.text) >= 2
    /\ IsArrayText(cycle_file.text)
    /\ ~IsArrayText(reader_view.text)

\* C9: in every buffer written by run_continuous the records of this run are
\* in the order of their generation and come after every record the file
\* already held.
C9_InsertionIsGenerationOrder ==
    pc = "report" =>
        LET L == BufferOf(file)
        IN  \A i \in 1..(Len(L) - 1) :
               IsRun(L[i]) => (IsRun(L[i + 1]) /\ GenerationIndex(L[i]) < GenerationIndex(L[i + 1]))

\* A written buffer with an older record followed by two records of this run.
C9_Witness ==
    /\ pc = "report"
    /\ LET L == BufferOf(file)
       IN  /\ Len(L) >= 3
           /\ ~IsRun(L[1])
           /\ IsRun(L[Len(L) - 1])
           /\ IsRun(L[Len(L)])

\* C10: the counter equals the number of records generated so far (the
\* increment follows the generation at once, before the load and the write,
\* whether or not the cycle then fails), and when a cycle has written or has
\* failed, a record of this run is in the persisted buffer only if the write
\* of its own cycle completed.
C10_CounterCountsAndFailedAreDropped ==
    /\ counter = Len(generated_ids) - (IF pc = "increment" THEN 1 ELSE 0)
    /\ pc \in {"load", "append", "truncate", "open_w", "dump", "report"}
          => counter = Len(generated_ids)
    /\ pc \in {"report", "except"}
          => LET L == BufferOf(file)
             IN  \A i \in 1..Len(L) : IsRun(L[i]) => L[i].id \in committed_ids

\* The first cycle failed after generating, the second one has written.
C10_Witness ==
    /\ pc = "report"
    /\ Len(generated_ids) = 2
    /\ counter = 2
    /\ generated_ids[1] \notin committed_ids
    /\ new_item.id = generated_ids[2]
    /\ BufferOf(file)[Len(BufferOf(file))] = new_item

====
